---- MODULE Spec2Model ----
(***************************************************************************)
(* Glyph-atlas ("tileset") generation of rendering/generate_tilesets.py    *)
(* and rendering/generate_ascii_tileset.py: the font loader, the tofu      *)
(* detector and its cache, the glyph-presence test, the font selection,    *)
(* the tile renderer's geometry and the atlas grid.                        *)
(*                                                                         *)
(* The Pillow calls are the environment.  A draw call answers with the     *)
(* number of non-zero pixels it leaves on the 100x100 probe canvas, or     *)
(* raises; RAISE stands for the raised exception.  A font handle is the    *)
(* pair of its identity id(font) and of what rendering chr(0xFFFF) with it *)
(* answers (the font's tofu footprint, or RAISE).                          *)
(***************************************************************************)
EXTENDS Integers, Sequences, FiniteSets, TLC

VARIABLES
    main_font,        \* create_unicode_tileset: the handle load_font returned
    symbol_fonts,     \* create_unicode_tileset: the list load_symbol_fonts returned
    tofu_cache,       \* _tofu_cache: id(font) -> pixel count
    probe_renders,    \* history: per id(font), probe renders attempted and completed
    call,             \* the last call of a function under test, with what it returned
    chars,            \* the character list being tiled
    i,                \* loop index of the tiling loop / candidate index of the loader
    missing_chars,    \* create_unicode_tileset: missing_chars
    image,            \* the atlas
    symbol_font_used, \* create_unicode_tileset: symbol_font_used
    usable,           \* history: per processed index, whether some font has the glyph
    pc,               \* where the running function is
    num_chars,        \* len(chars)
    columns,          \* tiles per row
    tile_width,
    tile_height,
    bbox,             \* textbbox((0, 0), char): <<left, top, right, bottom>>
    font_files        \* the filesystem the loader sees, per candidate path

vars ==
    <<main_font, symbol_fonts, tofu_cache, probe_renders, call, chars, i,
      missing_chars, image, symbol_font_used, usable, pc, num_chars, columns,
      tile_width, tile_height, bbox, font_files>>

-----------------------------------------------------------------------------
(* Bounds of the model. *)

\* Pixel counts a draw call may answer with: 0..MaxInk.
MaxInk == 2

\* Probe renders attempted per font before the calls on it stop.
MaxProbeAttempts == 2

\* Longest character list of create_unicode_tileset's loop.
MaxChars == 2

\* Grid geometry: character counts 0..MaxGridChars, 1..MaxColumns tiles per
\* row, tiles of 1..MaxTile pixels a side.
MaxGridChars == 5

MaxColumns == 3

MaxTile == 2

\* render_char_to_tile: tiles of 1..MaxRenderTile pixels a side, bounding
\* boxes of 0..MaxBox pixels a side.
MaxRenderTile == 8

MaxBox == 10

-----------------------------------------------------------------------------
(* Program constants. *)

\* chr(0xFFFF), the character get_tofu_pixels renders.
ProbeCodepoint == 65535

\* ' '
Space == 32

\* '\u00A0'
NoBreakSpace == 160

\* len(symbol_font_paths)
NumSymbolFontPaths == 2

TILE_WIDTH == 38

TILE_HEIGHT == 64

UNICODE_TILES_PER_ROW == 32

\* len(font_paths) of load_font
NumFontPaths == 7

\* len(font_paths) of generate_ascii_tileset.py
NumAsciiFontPaths == 6

-----------------------------------------------------------------------------
(* The rendering environment. *)

\* The exception a Pillow call raises.
RAISE == 0 - 1

Ink == 0 .. MaxInk

Outcomes == Ink \cup {RAISE}

\* selected_font = None
NoneFont == [id |-> 0, probe |-> 0]

\* The handles a run holds: distinct objects alive together have distinct ids.
FontHandle(k, p) == [id |-> k, probe |-> p]

LoadedFonts == {main_font} \cup {symbol_fonts[k] : k \in 1 .. Len(symbol_fonts)}

\* What draw.text((10, 10), char, fill=255, font=font) leaves on the probe
\* canvas, counted: rendering is a function of the font and the text, so
\* chr(0xFFFF) always answers with the font's tofu footprint; `ink` is the
\* environment's answer for any other character.
DrawnPixels(font, char, ink) == IF char = ProbeCodepoint THEN font.probe ELSE ink

-----------------------------------------------------------------------------
(* get_tofu_pixels and font_has_glyph.  Each returns a record: what the call *)
(* returns (or that it raised), the cache it leaves, and the renders it did. *)

\* The miss branch: render chr(0xFFFF), count, store.  A raising draw.text
\* leaves the function before the store.
ProbeRender(font, cache) ==
    LET pixels == DrawnPixels(font, ProbeCodepoint, 0)
    IN  IF pixels = RAISE
        THEN [raised |-> TRUE, value |-> 0, cache |-> cache, probed |-> 1, stored |-> 0]
        ELSE [raised |-> FALSE, value |-> pixels,
              cache |-> [k \in DOMAIN cache \cup {font.id} |->
                            IF k = font.id THEN pixels ELSE cache[k]],
              probed |-> 1, stored |-> 1]

get_tofu_pixels_no_cache(font, cache) == ProbeRender(font, cache)

get_tofu_pixels(font, cache) ==
    IF font.id \notin DOMAIN cache
    THEN ProbeRender(font, cache)
    ELSE [raised |-> FALSE, value |-> cache[font.id], cache |-> cache,
          probed |-> 0, stored |-> 0]

font_has_glyph_no_tofu_check(font, char, ink, cache) ==
    IF char \in {Space, NoBreakSpace}
    THEN [result |-> TRUE, raised |-> FALSE, cache |-> cache, draws |-> 0,
          probed |-> 0, stored |-> 0]
    ELSE LET pixels == DrawnPixels(font, char, ink)
             t == get_tofu_pixels(font, cache)
         IN  IF pixels = RAISE
             THEN [result |-> FALSE, raised |-> FALSE, cache |-> cache, draws |-> 1,
                   probed |-> 0, stored |-> 0]
             ELSE [result |-> (~t.raised /\ pixels # 0), raised |-> FALSE,
                   cache |-> t.cache, draws |-> 1, probed |-> t.probed,
                   stored |-> t.stored]

font_has_glyph_no_zero_check(font, char, ink, cache) ==
    IF char \in {Space, NoBreakSpace}
    THEN [result |-> TRUE, raised |-> FALSE, cache |-> cache, draws |-> 0,
          probed |-> 0, stored |-> 0]
    ELSE LET pixels == DrawnPixels(font, char, ink)
             t == get_tofu_pixels(font, cache)
         IN  IF pixels = RAISE
             THEN [result |-> FALSE, raised |-> FALSE, cache |-> cache, draws |-> 1,
                   probed |-> 0, stored |-> 0]
             ELSE [result |-> (~t.raised /\ pixels # t.value), raised |-> FALSE,
                   cache |-> t.cache, draws |-> 1, probed |-> t.probed,
                   stored |-> t.stored]

\* The bare `except:` turns every exception of the try block, the probe's
\* included, into False; nothing is stored when the probe raises.
font_has_glyph(font, char, ink, cache) ==
    IF char \in {Space, NoBreakSpace}
    THEN [result |-> TRUE, raised |-> FALSE, cache |-> cache, draws |-> 0,
          probed |-> 0, stored |-> 0]
    ELSE LET pixels == DrawnPixels(font, char, ink)
             t == get_tofu_pixels(font, cache)
         IN  IF pixels = RAISE
             THEN [result |-> FALSE, raised |-> FALSE, cache |-> cache, draws |-> 1,
                   probed |-> 0, stored |-> 0]
             ELSE IF t.raised
             THEN [result |-> FALSE, raised |-> FALSE, cache |-> t.cache, draws |-> 1,
                   probed |-> t.probed, stored |-> t.stored]
             ELSE IF pixels = t.value
             THEN [result |-> FALSE, raised |-> FALSE, cache |-> t.cache, draws |-> 1,
                   probed |-> t.probed, stored |-> t.stored]
             ELSE IF pixels = 0
             THEN [result |-> FALSE, raised |-> FALSE, cache |-> t.cache, draws |-> 1,
                   probed |-> t.probed, stored |-> t.stored]
             ELSE [result |-> TRUE, raised |-> FALSE, cache |-> t.cache, draws |-> 1,
                   probed |-> t.probed, stored |-> t.stored]

-----------------------------------------------------------------------------
(* The font selection of create_unicode_tileset. *)

\* symbol_ranges of should_use_symbol_font: Miscellaneous Technical,
\* Geometric Shapes, Miscellaneous Symbols, Dingbats.
symbol_ranges == <<  <<8960, 9215>>, <<9632, 9727>>, <<9728, 9983>>, <<9984, 10175>>  >>

should_use_symbol_font_exclusive_end(char) ==
    \E k \in 1 .. Len(symbol_ranges) :
        symbol_ranges[k][1] <= char /\ char < symbol_ranges[k][2]

should_use_symbol_font(char) ==
    \E k \in 1 .. Len(symbol_ranges) :
        symbol_ranges[k][1] <= char /\ char <= symbol_ranges[k][2]

\* `for font in symbol_fonts: if font_has_glyph(font, char): ... break`,
\* from the k-th symbol font on; inks[id] is what drawing char with the font
\* of that id answers.
RECURSIVE FirstSymbolFont(_, _, _, _, _)
FirstSymbolFont(k, char, symbols, inks, cache) ==
    IF k > Len(symbols)
    THEN [selected |-> NoneFont, cache |-> cache, used |-> 0]
    ELSE LET r == font_has_glyph(symbols[k], char, inks[symbols[k].id], cache)
         IN  IF r.result
             THEN [selected |-> symbols[k], cache |-> r.cache, used |-> 1]
             ELSE FirstSymbolFont(k + 1, char, symbols, inks, r.cache)

\* Lines 346-368: the selected font (or None), the cache the tests leave,
\* and the increment of symbol_font_used.
select_font(char, main, symbols, inks, cache) ==
    IF should_use_symbol_font(char)
    THEN LET s == FirstSymbolFont(1, char, symbols, inks, cache)
         IN  IF s.selected # NoneFont
             THEN s
             ELSE LET r == font_has_glyph(main, char, inks[main.id], s.cache)
                  IN  [selected |-> IF r.result THEN main ELSE NoneFont,
                       cache |-> r.cache, used |-> 0]
    ELSE LET r == font_has_glyph(main, char, inks[main.id], cache)
         IN  IF r.result
             THEN [selected |-> main, cache |-> r.cache, used |-> 0]
             ELSE FirstSymbolFont(1, char, symbols, inks, r.cache)

-----------------------------------------------------------------------------
(* Variables a specification does not use keep one value. *)

NoCall ==
    [op |-> "none", font |-> NoneFont, char |-> 0, pixels |-> 0, cached |-> FALSE,
     raised |-> FALSE, value |-> 0, result |-> FALSE, draws |-> 0, probed |-> 0,
     hg |-> <<>>, geom |-> <<>>]

IdleFonts ==
    /\ main_font = NoneFont
    /\ symbol_fonts = <<>>
    /\ tofu_cache = <<>>
    /\ probe_renders = <<>>

IdleLoop ==
    /\ chars = <<>>
    /\ i = 0
    /\ missing_chars = <<>>
    /\ image = <<>>
    /\ symbol_font_used = 0
    /\ usable = <<>>
    /\ pc = "idle"

IdleGrid ==
    /\ num_chars = 0
    /\ columns = 0
    /\ tile_width = 0
    /\ tile_height = 0

IdleRender == bbox = <<0, 0, 0, 0>>

IdleLoader == font_files = <<>>

loopVars == <<chars, i, missing_chars, image, symbol_font_used, usable, pc>>

gridVars == <<num_chars, columns, tile_width, tile_height>>

-----------------------------------------------------------------------------
(* The fonts of one generation run: load_font always returns a handle,      *)
(* load_symbol_fonts one per symbol font file that exists; all stay alive   *)
(* until create_unicode_tileset returns.                                    *)

RunFonts ==
    /\ \E p \in Outcomes : main_font = FontHandle(1, p)
    /\ \E n \in 0 .. NumSymbolFontPaths :
          \E ps \in [1 .. n -> Outcomes] :
             symbol_fonts = [k \in 1 .. n |-> FontHandle(1 + k, ps[k])]

-----------------------------------------------------------------------------
(* SpecGlyph: any sequence of get_tofu_pixels and font_has_glyph calls on   *)
(* the fonts of one run.                                                    *)

\* The characters font_has_glyph is called with: the two spaces, an
\* ordinary character ('A'), and the probe character itself.
GlyphChars == {Space, NoBreakSpace, 65, ProbeCodepoint}

InkChoices(char) == IF char \in {Space, NoBreakSpace, ProbeCodepoint} THEN {0} ELSE Outcomes

Counted(font, r) ==
    [probe_renders EXCEPT ![font.id] =
        [attempted |-> @.attempted + r.probed, completed |-> @.completed + r.stored]]

GlyphInit ==
    /\ RunFonts
    /\ tofu_cache = <<>>
    /\ probe_renders = [k \in {f.id : f \in LoadedFonts} |-> [attempted |-> 0, completed |-> 0]]
    /\ call = NoCall
    /\ IdleLoop /\ IdleGrid /\ IdleRender /\ IdleLoader

CallGetTofuPixels ==
    \E font \in LoadedFonts :
       /\ probe_renders[font.id].attempted < MaxProbeAttempts
       /\ LET r == get_tofu_pixels(font, tofu_cache)
          IN  /\ tofu_cache' = r.cache
              /\ probe_renders' = Counted(font, r)
              /\ call' = [NoCall EXCEPT !.op = "get_tofu_pixels", !.font = font,
                            !.char = ProbeCodepoint,
                            !.cached = (font.id \in DOMAIN tofu_cache),
                            !.raised = r.raised, !.value = r.value,
                            !.probed = r.probed]
       /\ UNCHANGED <<main_font, symbol_fonts, bbox, font_files>>
       /\ UNCHANGED loopVars
       /\ UNCHANGED gridVars

CallFontHasGlyph ==
    \E font \in LoadedFonts, char \in GlyphChars :
       \E ink \in InkChoices(char) :
          /\ probe_renders[font.id].attempted < MaxProbeAttempts
          /\ LET r == font_has_glyph(font, char, ink, tofu_cache)
             IN  /\ tofu_cache' = r.cache
                 /\ probe_renders' = Counted(font, r)
                 /\ call' = [NoCall EXCEPT !.op = "font_has_glyph", !.font = font,
                               !.char = char,
                               !.pixels = DrawnPixels(font, char, ink),
                               !.cached = (font.id \in DOMAIN tofu_cache),
                               !.raised = r.raised, !.result = r.result,
                               !.draws = r.draws, !.probed = r.probed]
          /\ UNCHANGED <<main_font, symbol_fonts, bbox, font_files>>
          /\ UNCHANGED loopVars
          /\ UNCHANGED gridVars

GlyphNext == CallGetTofuPixels \/ CallFontHasGlyph

SpecGlyph == GlyphInit /\ [][GlyphNext]_vars

-----------------------------------------------------------------------------
(* Claims about font_has_glyph and get_tofu_pixels, under SpecGlyph. *)

IsFontHasGlyphCall == call.op = "font_has_glyph"

\* The decision table of the glyph-presence test, from the character, what
\* the draw call answered, and the font's own tofu footprint.
DecisionTable(char, pixels, tofu) ==
    IF char \in {Space, NoBreakSpace} THEN TRUE
    ELSE IF pixels = RAISE THEN FALSE
    ELSE IF tofu = RAISE THEN FALSE
    ELSE IF pixels = tofu THEN FALSE
    ELSE IF pixels = 0 THEN FALSE
    ELSE TRUE

\* C2: font_has_glyph(font, char) is True for a space or a non-breaking
\* space, without any render; otherwise False when the draw call or the
\* tofu probe raises, False when the pixel count equals the font's tofu
\* footprint, False when it is zero, True in every other case; and the
\* call never raises.
C2_DecisionTable ==
    IsFontHasGlyphCall =>
        /\ ~call.raised
        /\ call.result = DecisionTable(call.char, call.pixels, call.font.probe)
        /\ (call.char \in {Space, NoBreakSpace} => call.draws = 0 /\ call.probed = 0)

\* An ordinary character found present in a font whose tofu box has pixels.
C2_Witness ==
    /\ IsFontHasGlyphCall
    /\ call.char = 65
    /\ call.result
    /\ call.font.probe > 0

\* C7: font_has_glyph(font, chr(0xFFFF)) is False for every font, cached
\* footprint or not, zero-pixel probe or raising probe included.
C7_ProbeCharHasNoGlyph ==
    (IsFontHasGlyphCall /\ call.char = ProbeCodepoint) =>
        (call.result = FALSE /\ ~call.raised)

\* The probe character tested against a footprint already in the cache.
C7_Witness ==
    /\ IsFontHasGlyphCall
    /\ call.char = ProbeCodepoint
    /\ call.cached
    /\ call.font.probe > 0
    /\ call.result = FALSE

\* C9 as stated: the probe render of a font happens at most once.
C9_ProbeRenderedAtMostOnce ==
    \A k \in DOMAIN probe_renders : probe_renders[k].attempted <= 1

CacheCoherent ==
    \A font \in LoadedFonts :
        /\ probe_renders[font.id].completed <= 1
        /\ (font.id \in DOMAIN tofu_cache) = (probe_renders[font.id].completed = 1)
        /\ (font.id \in DOMAIN tofu_cache => tofu_cache[font.id] = font.probe)
        /\ (probe_renders[font.id].attempted > probe_renders[font.id].completed
               => font.probe = RAISE)

HitDoesNotRender ==
    (call.op # "none" /\ call.cached) =>
        /\ call.probed = 0
        /\ (call.op = "get_tofu_pixels" =>
               ~call.raised /\ call.value = tofu_cache[call.font.id])

EntriesKept ==
    \A k \in DOMAIN tofu_cache :
        k \in DOMAIN tofu_cache' /\ tofu_cache'[k] = tofu_cache[k]

\* C9, amended: a probe render that completes happens at most once per font
\* handle: the call on which it completes stores the footprint, every later
\* call finds the entry, renders nothing and returns the stored value, and
\* no call removes or overwrites an entry.  A probe render that raises
\* stores nothing, so the next call renders again.
C9_CompletedProbeMemoized ==
    [](CacheCoherent /\ HitDoesNotRender) /\ [][EntriesKept]_vars

\* A second call on a font whose footprint the first one stored.
C9_Witness ==
    /\ call.op = "get_tofu_pixels"
    /\ call.cached
    /\ call.probed = 0
    /\ probe_renders[call.font.id].attempted = 1
    /\ call.value > 0

-----------------------------------------------------------------------------
(* SpecSelect: the font selection applied to one character after another,   *)
(* on the fonts of one run.                                                 *)

\* Space, 'A', and both sides of every end of the four symbol ranges.
SelectChars ==
    {Space, 65, 8959, 8960, 9215, 9216, 9631, 9632, 9727, 9728, 9983, 9984, 10175, 10176}

FontIds == {f.id : f \in LoadedFonts}

\* What the tests of the earlier characters of the run may have left in the
\* cache: the own footprint of any of the fonts whose probe render completes.
CacheOfEarlierTests ==
    \E tested \in SUBSET {f \in LoadedFonts : f.probe # RAISE} :
        tofu_cache = [k \in {f.id : f \in tested} |->
                        (CHOOSE f \in tested : f.id = k).probe]

SelectInit ==
    /\ RunFonts
    /\ CacheOfEarlierTests
    /\ probe_renders = <<>>
    /\ call = NoCall
    /\ IdleLoop /\ IdleGrid /\ IdleRender /\ IdleLoader

HasGlyphIn(fonts, k, char, ink, cache) ==
    \E f \in fonts : f.id = k /\ font_has_glyph(f, char, ink, cache).result

\* One iteration's selection, for the next character of the list.
SelectFontCall ==
    /\ call.op = "none"
    /\ \E char \in SelectChars, inks \in [FontIds -> Outcomes] :
        LET r == select_font(char, main_font, symbol_fonts, inks, tofu_cache)
        IN  /\ tofu_cache' = r.cache
            /\ call' = [NoCall EXCEPT !.op = "select_font", !.char = char,
                          !.font = r.selected,
                          !.hg = [k \in FontIds |->
                                    HasGlyphIn(LoadedFonts, k, char, inks[k], tofu_cache)]]
            /\ UNCHANGED <<main_font, symbol_fonts, probe_renders, bbox, font_files>>
            /\ UNCHANGED loopVars
            /\ UNCHANGED gridVars

SelectNext == SelectFontCall

SpecSelect == SelectInit /\ [][SelectNext]_vars

-----------------------------------------------------------------------------
(* Claim about the font selection, under SpecSelect. *)

InSymbolRange(c) ==
    \/ (8960 <= c /\ c <= 9215)
    \/ (9632 <= c /\ c <= 9727)
    \/ (9728 <= c /\ c <= 9983)
    \/ (9984 <= c /\ c <= 10175)

\* The candidates in the order the rule tries them.
PriorityOrder(c) ==
    IF InSymbolRange(c) THEN symbol_fonts \o <<main_font>> ELSE <<main_font>> \o symbol_fonts

\* The first candidate, in priority order, that has the glyph; None if none.
PriorityRule(c, hg) ==
    LET order == PriorityOrder(c)
        having == {k \in 1 .. Len(order) : hg[order[k].id]}
    IN  IF having = {} THEN NoneFont
        ELSE order[CHOOSE k \in having : \A j \in having : k <= j]

\* C1: for a character of 0x2300-0x23FF, 0x25A0-0x25FF, 0x2600-0x26FF or
\* 0x2700-0x27BF the selected font is the first symbol font, in declared
\* order, that has the glyph, else the main font if it has it, else none;
\* for any other character the main font if it has the glyph, else the first
\* symbol font that has it, else none.  None is selected exactly when no
\* candidate has the glyph.
C1_SelectionFollowsPriority ==
    call.op = "select_font" =>
        /\ call.font = PriorityRule(call.char, call.hg)
        /\ (call.font = NoneFont) = (\A k \in FontIds : ~call.hg[k])

\* A symbol-range character both the main font and a symbol font can
\* render, resolved to the symbol font.
C1_Witness ==
    /\ call.op = "select_font"
    /\ call.char = 9215
    /\ Len(symbol_fonts) = 2
    /\ call.hg[main_font.id]
    /\ ~call.hg[symbol_fonts[1].id]
    /\ call.hg[symbol_fonts[2].id]
    /\ call.font = symbol_fonts[2]

-----------------------------------------------------------------------------
(* Spec: create_unicode_tileset, from the loaded fonts to the saved atlas.  *)
(* The atlas is kept per cell, keyed by the cell's pixel offset.            *)

HexDigit == <<"0", "1", "2", "3", "4", "5", "6", "7", "8", "9", "a", "b", "c", "d", "e", "f">>

RECURSIVE hex_digits(_)
hex_digits(n) ==
    IF n < 16 THEN <<HexDigit[n + 1]>>
    ELSE Append(hex_digits(n \div 16), HexDigit[(n % 16) + 1])

\* hex(ord(char)): "0x" and the digits, most significant first.
hex(n) == <<"0x">> \o hex_digits(n)

CellOffset_swapped(index, cols, tw, th) == <<(index \div cols) * tw, (index % cols) * th>>

\* row = i // columns, col = i % columns, the offsets their products.
CellOffset(index, cols, tw, th) == <<(index % cols) * tw, (index \div cols) * th>>

\* A cell nothing was pasted into: the (0, 0, 0, 0) of Image.new.
Transparent == [font |-> 0, char |-> 0]

\* The tile render_char_to_tile returns for the character and the font.
Tile(char, font) == [font |-> font.id, char |-> char]

\* The characters of the list: a space, a letter, a symbol-range character.
LoopChars == {Space, 65, 9728}

CharLists ==
    {l \in UNION {[1 .. n -> LoopChars] : n \in 0 .. MaxChars} :
        \A j, k \in 1 .. Len(l) : j # k => l[j] # l[k]}

Init ==
    /\ RunFonts
    /\ tofu_cache = <<>>
    /\ probe_renders = <<>>
    /\ call = NoCall
    /\ chars \in CharLists
    /\ num_chars = Len(chars)
    /\ columns = UNICODE_TILES_PER_ROW
    /\ tile_width = TILE_WIDTH
    /\ tile_height = TILE_HEIGHT
    /\ i = 0
    /\ missing_chars = <<>>
    /\ symbol_font_used = 0
    /\ usable = <<>>
    /\ image = [o \in {CellOffset(k, columns, tile_width, tile_height) : k \in 0 .. num_chars - 1}
                   |-> Transparent]
    /\ pc = "loop"
    /\ IdleRender /\ IdleLoader

\* `if selected_font is None`: record the character, leave the cell, go on.
MissingGlyph_no_continue(char) ==
    /\ missing_chars' = Append(missing_chars, <<char, hex(char)>>)
    /\ pc' = "raised"
    /\ UNCHANGED <<i, image>>

MissingGlyph(char) ==
    /\ missing_chars' = Append(missing_chars, <<char, hex(char)>>)
    /\ i' = i + 1
    /\ UNCHANGED <<image, pc>>

\* Lines 376-377.  Nothing catches what render_char_to_tile raises: the
\* exception leaves create_unicode_tileset, and nothing is saved.
RenderAndPaste(char, font, raises) ==
    IF raises
    THEN /\ pc' = "raised"
         /\ UNCHANGED <<i, image, missing_chars>>
    ELSE /\ image' = [image EXCEPT ![CellOffset(i, columns, tile_width, tile_height)] =
                                      Tile(char, font)]
         /\ i' = i + 1
         /\ UNCHANGED <<missing_chars, pc>>

\* One iteration of `for i, char in enumerate(UNICODE_CHARS)`.
LoopStep ==
    /\ pc = "loop"
    /\ i < num_chars
    /\ LET char == chars[i + 1]
       IN  \E inks \in [FontIds -> InkChoices(char)], raises \in BOOLEAN :
              LET r == select_font(char, main_font, symbol_fonts, inks, tofu_cache)
              IN  /\ tofu_cache' = r.cache
                  /\ symbol_font_used' = symbol_font_used + r.used
                  /\ usable' = Append(usable,
                                  \E k \in FontIds :
                                     HasGlyphIn(LoadedFonts, k, char, inks[k], tofu_cache))
                  /\ IF r.selected = NoneFont
                     THEN ~raises /\ MissingGlyph(char)
                     ELSE RenderAndPaste(char, r.selected, raises)
    /\ UNCHANGED <<main_font, symbol_fonts, probe_renders, call, chars, bbox, font_files>>
    /\ UNCHANGED gridVars

\* image.save(output_path) and the character map, after the loop.
Save ==
    /\ pc = "loop"
    /\ i = num_chars
    /\ pc' = "saved"
    /\ UNCHANGED <<main_font, symbol_fonts, tofu_cache, probe_renders, call, chars, i,
                   missing_chars, image, symbol_font_used, usable, bbox, font_files>>
    /\ UNCHANGED gridVars

Next == LoopStep \/ Save

Spec == Init /\ [][Next]_vars

-----------------------------------------------------------------------------
(* Claims about the loop of create_unicode_tileset, under Spec. *)

CellOf(j) == image[CellOffset(j - 1, columns, tile_width, tile_height)]

\* The entries the characters 1..j without a usable glyph give, in order.
RECURSIVE ExpectedMissing(_)
ExpectedMissing(j) ==
    IF j = 0 THEN <<>>
    ELSE IF usable[j] THEN ExpectedMissing(j - 1)
    ELSE Append(ExpectedMissing(j - 1), <<chars[j], hex(chars[j])>>)

DigitValue(d) == (CHOOSE k \in 1 .. 16 : HexDigit[k] = d) - 1

RECURSIVE HexValue(_)
HexValue(ds) ==
    IF Len(ds) = 0 THEN 0
    ELSE 16 * HexValue(SubSeq(ds, 1, Len(ds) - 1)) + DigitValue(ds[Len(ds)])

\* C5: every processed index whose character no font has a usable glyph for
\* leaves its cell transparent and adds exactly one (character, hex
\* codepoint) entry, in index order; the loop goes on after it (only a
\* character with a selected font can stop the run); a character with a
\* selected font is never listed; pasted tiles plus missing entries equal
\* the characters processed.
MissingBookkeeping ==
    /\ Len(usable) = (IF pc = "raised" THEN i + 1 ELSE i)
    /\ missing_chars = ExpectedMissing(i)
    /\ \A e \in 1 .. Len(missing_chars) :
          /\ missing_chars[e][2][1] = "0x"
          /\ HexValue(Tail(missing_chars[e][2])) = missing_chars[e][1]
    /\ \A j \in 1 .. i : (~usable[j]) = (CellOf(j) = Transparent)
    /\ \A j \in i + 1 .. num_chars : CellOf(j) = Transparent
    /\ Cardinality({j \in 1 .. i : CellOf(j) # Transparent}) + Len(missing_chars) = i
    /\ (pc = "raised" => usable[i + 1])
    /\ (pc = "saved" => i = num_chars)

LoopGoesOnAfterMissing ==
    (missing_chars' # missing_chars) =>
        /\ pc' = "loop"
        /\ i' = i + 1
        /\ image' = image
        /\ Len(missing_chars') = Len(missing_chars) + 1

C5_MissingGlyphsListedOnce ==
    []MissingBookkeeping /\ [][LoopGoesOnAfterMissing]_vars

\* A character without a glyph, listed, followed by a character that was
\* rendered and pasted.
C5_Witness ==
    /\ pc = "saved"
    /\ num_chars = 2
    /\ Len(missing_chars) = 1
    /\ missing_chars[1] = <<9728, <<"0x", "2", "6", "0", "0">> >>
    /\ CellOf(1) = Transparent
    /\ CellOf(2) # Transparent

\* C6: an exception raised while a character is measured or drawn never
\* ends the run: the run goes on to the later characters and the atlas is
\* produced.
C6_RenderExceptionNeverAborts == pc # "raised"

-----------------------------------------------------------------------------
(* SpecGrid: the grid of create_cp437_tileset, pixel by pixel, for any      *)
(* character count, tiles per row and tile size.  A pixel holds 0 until a   *)
(* paste writes it, then 1 + the index of the tile pasted over it last.     *)

\* Variant that rounds the row count down.
AtlasRows_floor(n, cols) == n \div cols

\* rows = (num_chars + TILES_PER_ROW - 1) // TILES_PER_ROW
AtlasRows(n, cols) == (n + cols - 1) \div cols

\* Image.new('RGBA', (width, height), (0, 0, 0, 0))
NewImage(width, height) == [p \in (0 .. width - 1) \X (0 .. height - 1) |-> 0]

\* render_char_to_tile returns an image of (tile_width, tile_height).
TileSize(tw, th) == <<tw, th>>

\* image.paste(tile, (x_offset, y_offset)): the pixels of the image under
\* the tile take the tile's.
Paste(img, offset, size, content) ==
    [p \in DOMAIN img |->
        IF /\ offset[1] <= p[1] /\ p[1] < offset[1] + size[1]
           /\ offset[2] <= p[2] /\ p[2] < offset[2] + size[2]
        THEN content
        ELSE img[p]]

GridInit ==
    /\ num_chars \in 0 .. MaxGridChars
    /\ columns \in 1 .. MaxColumns
    /\ tile_width \in 1 .. MaxTile
    /\ tile_height \in 1 .. MaxTile
    /\ image = NewImage(columns * tile_width, AtlasRows(num_chars, columns) * tile_height)
    /\ i = 0
    /\ pc = "loop"
    /\ chars = <<>>
    /\ missing_chars = <<>>
    /\ symbol_font_used = 0
    /\ usable = <<>>
    /\ call = NoCall
    /\ IdleFonts /\ IdleRender /\ IdleLoader

\* One iteration of `for i, char in enumerate(CP437_CHARS)`.
GridStep ==
    /\ pc = "loop"
    /\ i < num_chars
    /\ \E raises \in BOOLEAN :
          IF raises
          THEN pc' = "raised" /\ UNCHANGED <<i, image>>
          ELSE /\ image' = Paste(image, CellOffset(i, columns, tile_width, tile_height),
                                  TileSize(tile_width, tile_height), i + 1)
               /\ i' = i + 1
               /\ pc' = pc
    /\ UNCHANGED <<main_font, symbol_fonts, tofu_cache, probe_renders, call, chars,
                   missing_chars, symbol_font_used, usable, bbox, font_files>>
    /\ UNCHANGED gridVars

GridSave ==
    /\ pc = "loop"
    /\ i = num_chars
    /\ pc' = "saved"
    /\ UNCHANGED <<main_font, symbol_fonts, tofu_cache, probe_renders, call, chars, i,
                   missing_chars, image, symbol_font_used, usable, bbox, font_files>>
    /\ UNCHANGED gridVars

GridNext == GridStep \/ GridSave

SpecGrid == GridInit /\ [][GridNext]_vars

-----------------------------------------------------------------------------
(* Claims about the grid, under SpecGrid. *)

\* The tile_width x tile_height region of index j (from 0), by the claimed
\* offset ((j mod columns) * tile_width, (j div columns) * tile_height).
Region(j) ==
    ((j % columns) * tile_width .. (j % columns) * tile_width + tile_width - 1)
        \X ((j \div columns) * tile_height .. (j \div columns) * tile_height + tile_height - 1)

\* C3: the cell of index j has its top-left pixel at ((j mod columns) *
\* tile_width, (j div columns) * tile_height); the regions of two distinct
\* indices share no pixel; the paste of tile j changes no pixel outside
\* region j (so every pasted region still holds its own tile).
C3_CellsDisjoint ==
    /\ \A j \in 0 .. num_chars - 1 :
          CellOffset(j, columns, tile_width, tile_height)
             = <<(j % columns) * tile_width, (j \div columns) * tile_height>>
    /\ \A j, k \in 0 .. num_chars - 1 : j # k => Region(j) \cap Region(k) = {}
    /\ \A p \in DOMAIN image : image[p] # 0 => p \in Region(image[p] - 1)
    /\ \A j \in 0 .. i - 1 : \A p \in Region(j) : image[p] = j + 1

\* A finished grid of two rows, the second one partly filled.
C3_Witness ==
    /\ pc = "saved"
    /\ num_chars = 5
    /\ columns = 3
    /\ tile_width = 2
    /\ image[<<2, 1>>] = 5

\* The least r with r * cols >= n.
Ceil(n, cols) == CHOOSE r \in 0 .. n : r * cols >= n /\ \A q \in 0 .. r - 1 : q * cols < n

\* C4: (n + columns - 1) div columns is ceil(n / columns) (16 for 256 at 16
\* columns, 11 for 352 at 32); the atlas is columns * tile_width by rows *
\* tile_height; every cell lies inside it; no row is left wholly unused.
C4_RowsAreCeiling ==
    /\ AtlasRows(num_chars, columns) = Ceil(num_chars, columns)
    /\ AtlasRows(256, 16) = 16
    /\ AtlasRows(352, 32) = 11
    /\ DOMAIN image = (0 .. columns * tile_width - 1)
                         \X (0 .. Ceil(num_chars, columns) * tile_height - 1)
    /\ \A j \in 0 .. num_chars - 1 : Region(j) \subseteq DOMAIN image
    /\ (num_chars > 0 => (Ceil(num_chars, columns) - 1) * columns < num_chars)

\* Four characters at three per row: two rows, the last cell of the second
\* row pasted.
C4_Witness ==
    /\ num_chars = 4
    /\ columns = 3
    /\ tile_width = 2
    /\ tile_height = 2
    /\ i = 4
    /\ image[<<1, 3>>] = 4

-----------------------------------------------------------------------------
(* SpecRender: the geometry of render_char_to_tile, for any tile size and   *)
(* any bounding box textbbox may answer with.                               *)

\* int(): towards zero.
IntTrunc(a, b) == IF a >= 0 THEN a \div b ELSE 0 - ((0 - a) \div b)

Sign(t) == IF t > 0 THEN 1 ELSE IF t < 0 THEN 0 - 1 ELSE 0

\* int(d * scale) for scale = num / den computed in floating point: when
\* d * num / den is a whole number the rounded product may fall just short
\* of it (60 for 88 * (60 / 88) comes out as 59), and int() then gives the
\* whole number next to it towards zero; `short` says whether it does.
FloatInt(d, num, den, short) ==
    LET t == IntTrunc(d * num, den)
    IN  IF short /\ (d * num) % den = 0 /\ t # 0 THEN t - Sign(t) ELSE t

Max(a, b) == IF a >= b THEN a ELSE b

FitScale_max(cw, ch, mw, mh) == IF mw * ch >= mh * cw THEN <<mw, cw>> ELSE <<mh, ch>>

\* scale = min(max_width / char_width, max_height / char_height), as the
\* fraction <<numerator, denominator>>; char_width, char_height > 0.
FitScale(cw, ch, mw, mh) == IF mw * ch <= mh * cw THEN <<mw, cw>> ELSE <<mh, ch>>

\* Variant whose direct path centers the pen instead of the bounding box.
render_char_to_tile_pen_centered(box, tw, th, short_w, short_h) ==
    LET char_width == box[3] - box[1]
        char_height == box[4] - box[2]
        max_width == tw - 2
        max_height == th - 4
        needs_scale == char_width > max_width \/ char_height > max_height
    IN  IF needs_scale /\ char_width > 0 /\ char_height > 0
        THEN LET scale == FitScale(char_width, char_height, max_width, max_height)
                 new_width == Max(1, FloatInt(char_width, scale[1], scale[2], short_w))
                 new_height == Max(1, FloatInt(char_height, scale[1], scale[2], short_h))
             IN  [path |-> "scaled", char_width |-> char_width, char_height |-> char_height,
                  large_size |-> <<char_width * 2, char_height * 2>>,
                  pen |-> <<0 - box[1], 0 - box[2]>>,
                  new_width |-> new_width, new_height |-> new_height,
                  x |-> (tw - new_width) \div 2, y |-> (th - new_height) \div 2,
                  size |-> <<tw, th>>]
        ELSE [path |-> "direct", char_width |-> char_width, char_height |-> char_height,
              large_size |-> <<0, 0>>, pen |-> <<0, 0>>,
              new_width |-> char_width, new_height |-> char_height,
              x |-> (tw - char_width) \div 2,
              y |-> (th - char_height) \div 2,
              size |-> <<tw, th>>]

\* What render_char_to_tile computes from the bounding box: the path taken,
\* the size of the oversized canvas and of the scaled image, and where the
\* glyph is pasted or drawn.
render_char_to_tile(box, tw, th, short_w, short_h) ==
    LET char_width == box[3] - box[1]
        char_height == box[4] - box[2]
        max_width == tw - 2
        max_height == th - 4
        needs_scale == char_width > max_width \/ char_height > max_height
    IN  IF needs_scale /\ char_width > 0 /\ char_height > 0
        THEN LET scale == FitScale(char_width, char_height, max_width, max_height)
                 new_width == Max(1, FloatInt(char_width, scale[1], scale[2], short_w))
                 new_height == Max(1, FloatInt(char_height, scale[1], scale[2], short_h))
             IN  [path |-> "scaled", char_width |-> char_width, char_height |-> char_height,
                  large_size |-> <<char_width * 2, char_height * 2>>,
                  pen |-> <<0 - box[1], 0 - box[2]>>,
                  new_width |-> new_width, new_height |-> new_height,
                  x |-> (tw - new_width) \div 2, y |-> (th - new_height) \div 2,
                  size |-> <<tw, th>>]
        ELSE [path |-> "direct", char_width |-> char_width, char_height |-> char_height,
              large_size |-> <<0, 0>>, pen |-> <<0, 0>>,
              new_width |-> char_width, new_height |-> char_height,
              x |-> (tw - char_width) \div 2 - box[1],
              y |-> (th - char_height) \div 2 - box[2],
              size |-> <<tw, th>>]

\* Where the bounding box of a glyph drawn at (0, 0) may start.
BoxOrigins == {0 - 1, 0, 1}

RenderInit ==
    /\ tile_width \in 1 .. MaxRenderTile
    /\ tile_height \in 1 .. MaxRenderTile
    /\ \E left \in BoxOrigins, top \in BoxOrigins, w \in 0 .. MaxBox, h \in 0 .. MaxBox :
          bbox = <<left, top, left + w, top + h>>
    /\ num_chars = 0
    /\ columns = 0
    /\ call = NoCall
    /\ IdleFonts /\ IdleLoop /\ IdleLoader

RenderCall ==
    /\ call.op = "none"
    /\ \E short_w \in BOOLEAN, short_h \in BOOLEAN :
          call' = [NoCall EXCEPT !.op = "render_char_to_tile",
                     !.geom = render_char_to_tile(bbox, tile_width, tile_height,
                                                  short_w, short_h)]
    /\ UNCHANGED <<main_font, symbol_fonts, tofu_cache, probe_renders, bbox, font_files>>
    /\ UNCHANGED loopVars
    /\ UNCHANGED gridVars

RenderNext == RenderCall

SpecRender == RenderInit /\ [][RenderNext]_vars

-----------------------------------------------------------------------------
(* Claim about the scaling of render_char_to_tile, under SpecRender. *)

Abs(a) == IF a >= 0 THEN a ELSE 0 - a

\* The call scaled a box of positive width and height that exceeds the
\* padded interior.
ScaledOversized ==
    /\ call.op = "render_char_to_tile"
    /\ call.geom.char_width > 0
    /\ call.geom.char_height > 0
    /\ \/ call.geom.char_width > tile_width - 2
       \/ call.geom.char_height > tile_height - 4

\* The scaled size fits the padded interior, and each side is within one
\* pixel of the box's side times s = min((tile_width - 2) / char_width,
\* (tile_height - 4) / char_height).
FitsAndKeepsAspect ==
    LET cw == call.geom.char_width
        ch == call.geom.char_height
        mw == tile_width - 2
        mh == tile_height - 4
        byWidth == mw * ch <= mh * cw
        num == IF byWidth THEN mw ELSE mh
        den == IF byWidth THEN cw ELSE ch
    IN  /\ call.geom.path = "scaled"
        /\ call.geom.new_width <= mw
        /\ call.geom.new_height <= mh
        /\ Abs(call.geom.new_width * den - cw * num) <= den
        /\ Abs(call.geom.new_height * den - ch * num) <= den

\* C8 as stated: for every tile size.
C8_ScaledFitsEveryTile == ScaledOversized => FitsAndKeepsAspect

\* C8, amended: for every tile with a padded interior of at least one
\* pixel each way (tile_width >= 3 and tile_height >= 5) and every box of
\* positive width and height that exceeds the interior, the scaled size
\* max(1, floor(char_width * s)), max(1, floor(char_height * s)) is at most
\* tile_width - 2 by tile_height - 4 and keeps the box's aspect ratio within
\* one pixel.
C8_ScaledFitsInterior ==
    (ScaledOversized /\ tile_width >= 3 /\ tile_height >= 5) => FitsAndKeepsAspect

\* A 10 x 10 box scaled into the 6 x 4 interior of an 8 x 8 tile, the
\* floating-point product one short of the whole number.
C8_Witness ==
    /\ ScaledOversized
    /\ tile_width = 8
    /\ tile_height = 8
    /\ call.geom.char_width = 10
    /\ call.geom.char_height = 10
    /\ call.geom.new_width = 4
    /\ call.geom.new_height = 3

-----------------------------------------------------------------------------
(* SpecLoad: the font loaders.  Each candidate path is absent, a font file, *)
(* or a file ImageFont.truetype cannot load.                                *)

FileStates == {"absent", "font", "broken"}

\* The font a loader returns: loaded from the candidate of that index, or
\* ImageFont.load_default() (index 0).
Loaded(op, path) == [NoCall EXCEPT !.op = op, !.value = path]

Raised(op, path) == [NoCall EXCEPT !.op = op, !.value = path, !.raised = TRUE]

LoadInit ==
    /\ \/ pc = "load_font" /\ font_files \in [1 .. NumFontPaths -> FileStates]
       \/ pc = "ascii_load" /\ font_files \in [1 .. NumAsciiFontPaths -> FileStates]
    /\ i = 0
    /\ call = NoCall
    /\ chars = <<>>
    /\ missing_chars = <<>>
    /\ image = <<>>
    /\ symbol_font_used = 0
    /\ usable = <<>>
    /\ IdleFonts /\ IdleGrid /\ IdleRender

\* load_font: `for font_path in font_paths`, one candidate.  truetype is
\* called outside any try.
LoadFontStep ==
    /\ pc = "load_font"
    /\ i < Len(font_files)
    /\ IF font_files[i + 1] = "absent"
       THEN i' = i + 1 /\ UNCHANGED <<pc, call>>
       ELSE IF font_files[i + 1] = "font"
       THEN pc' = "returned" /\ call' = Loaded("load_font", i + 1) /\ i' = i
       ELSE pc' = "raised" /\ call' = Raised("load_font", i + 1) /\ i' = i
    /\ UNCHANGED <<main_font, symbol_fonts, tofu_cache, probe_renders, chars,
                   missing_chars, image, symbol_font_used, usable, bbox, font_files>>
    /\ UNCHANGED gridVars

\* load_font: no candidate exists: the warning, and the default font.
LoadFontDefault ==
    /\ pc = "load_font"
    /\ i = Len(font_files)
    /\ pc' = "returned"
    /\ call' = [Loaded("load_font", 0) EXCEPT !.result = TRUE]
    /\ UNCHANGED <<main_font, symbol_fonts, tofu_cache, probe_renders, chars, i,
                   missing_chars, image, symbol_font_used, usable, bbox, font_files>>
    /\ UNCHANGED gridVars

\* generate_ascii_tileset.py: the same loop inside try/except: a failing
\* truetype ends it with the default font.
AsciiLoadStep ==
    /\ pc = "ascii_load"
    /\ i < Len(font_files)
    /\ IF font_files[i + 1] = "absent"
       THEN i' = i + 1 /\ UNCHANGED <<pc, call>>
       ELSE IF font_files[i + 1] = "font"
       THEN pc' = "returned" /\ call' = Loaded("ascii_load", i + 1) /\ i' = i
       ELSE pc' = "returned" /\ call' = Loaded("ascii_load", 0) /\ i' = i
    /\ UNCHANGED <<main_font, symbol_fonts, tofu_cache, probe_renders, chars,
                   missing_chars, image, symbol_font_used, usable, bbox, font_files>>
    /\ UNCHANGED gridVars

AsciiLoadDefault ==
    /\ pc = "ascii_load"
    /\ i = Len(font_files)
    /\ pc' = "returned"
    /\ call' = [Loaded("ascii_load", 0) EXCEPT !.result = TRUE]
    /\ UNCHANGED <<main_font, symbol_fonts, tofu_cache, probe_renders, chars, i,
                   missing_chars, image, symbol_font_used, usable, bbox, font_files>>
    /\ UNCHANGED gridVars

LoadNext == LoadFontStep \/ LoadFontDefault \/ AsciiLoadStep \/ AsciiLoadDefault

SpecLoad == LoadInit /\ [][LoadNext]_vars

-----------------------------------------------------------------------------
(* Claim about the font loaders, under SpecLoad. *)

Existing == {k \in 1 .. Len(font_files) : font_files[k] # "absent"}

FirstExisting == CHOOSE k \in Existing : \A j \in Existing : k <= j

\* C10: the loader never raises; it returns the font loaded from the first
\* candidate that exists, and the default font, with the warning, when no
\* candidate exists.
C10_LoaderAlwaysReturnsFont ==
    /\ pc # "raised"
    /\ pc = "returned" =>
          /\ ~call.raised
          /\ (Existing = {} => call.value = 0 /\ call.result)
          /\ (call.value # 0 => call.value = FirstExisting)

-----------------------------------------------------------------------------
(* SpecRuns: create_unicode_tileset called again and again in one process,  *)
(* each call as one step.  The font files and the character list stay the   *)
(* same; each call loads the files anew, and _tofu_cache lives on between   *)
(* the calls.  Every render_char_to_tile of these runs returns a tile.      *)

\* A font file: what it draws for chr(0xFFFF) and for the character of the
\* list that is not a space.
FontFile(p, k) == [probe |-> p, ink |-> k]

\* Character lists of the runs: a space and one character the main font is
\* asked for first, or one the symbol fonts are asked for first.
RunLists == {<<Space, 65>>, <<9728, NoBreakSpace>>}

\* id(font) of a newly loaded handle: the address of a handle released by
\* an earlier call, or another one.
IdPool == 1 .. NumSymbolFontPaths + 1

RunsInit ==
    /\ \E n \in 0 .. NumSymbolFontPaths :
          font_files \in [1 .. n + 1 -> {FontFile(p, k) : p \in Outcomes, k \in Ink}]
    /\ main_font = NoneFont
    /\ symbol_fonts = <<>>
    /\ tofu_cache = <<>>
    /\ probe_renders = <<>>
    /\ call = NoCall
    /\ chars \in RunLists
    /\ num_chars = Len(chars)
    /\ columns = UNICODE_TILES_PER_ROW
    /\ tile_width = TILE_WIDTH
    /\ tile_height = TILE_HEIGHT
    /\ i = 0
    /\ missing_chars = <<>>
    /\ symbol_font_used = 0
    /\ usable = <<>>
    /\ image = [o \in {CellOffset(k, columns, tile_width, tile_height) : k \in 0 .. num_chars - 1}
                   |-> Transparent]
    /\ pc = "idle"
    /\ IdleRender

\* The file a handle of the run was loaded from: 1 for the main font, 1 + k
\* for the k-th symbol font.
FileIndex(font, main, symbols) ==
    IF font = main THEN 1
    ELSE 1 + (CHOOSE k \in 1 .. Len(symbols) : symbols[k] = font)

\* What drawing the character answers, per id(font) of the run's handles.
RunInks(main, symbols, files) ==
    [k \in {main.id} \cup {symbols[j].id : j \in 1 .. Len(symbols)} |->
        IF k = main.id THEN files[1].ink
        ELSE files[1 + (CHOOSE j \in 1 .. Len(symbols) : symbols[j].id = k)].ink]

\* `for i, char in enumerate(UNICODE_CHARS)` from index k on; st holds the
\* cache, the atlas, missing_chars and symbol_font_used so far.  The pasted
\* tile is the rendering of the file the selected handle was loaded from.
RECURSIVE TileAll(_, _, _, _, _)
TileAll(k, main, symbols, files, st) ==
    IF k >= num_chars THEN st
    ELSE LET char == chars[k + 1]
             r == select_font(char, main, symbols, RunInks(main, symbols, files), st.cache)
             file == FileIndex(r.selected, main, symbols)
         IN  TileAll(k + 1, main, symbols, files,
                IF r.selected = NoneFont
                THEN [st EXCEPT !.cache = r.cache,
                                !.missing = Append(@, <<char, hex(char)>>)]
                ELSE [st EXCEPT !.cache = r.cache,
                                !.used = @ + r.used,
                                !.image[CellOffset(k, columns, tile_width, tile_height)] =
                                    Tile(char, FontHandle(file, files[file].probe))])

\* One call of create_unicode_tileset: new handles for the same files, each
\* with an identity no other handle of the call has; the loop; the save.
CreateUnicodeTileset ==
    /\ pc \in {"idle", "saved"}
    /\ \E ids \in [1 .. Len(font_files) -> IdPool] :
          /\ \A a, b \in 1 .. Len(font_files) : a # b => ids[a] # ids[b]
          /\ LET main == FontHandle(ids[1], font_files[1].probe)
                 symbols == [k \in 1 .. Len(font_files) - 1 |->
                                FontHandle(ids[k + 1], font_files[k + 1].probe)]
                 blank == [o \in DOMAIN image |-> Transparent]
                 r == TileAll(0, main, symbols, font_files,
                              [cache |-> tofu_cache, image |-> blank,
                               missing |-> <<>>, used |-> 0])
             IN  /\ main_font' = main
                 /\ symbol_fonts' = symbols
                 /\ tofu_cache' = r.cache
                 /\ image' = r.image
                 /\ missing_chars' = r.missing
                 /\ symbol_font_used' = r.used
    /\ i' = num_chars
    /\ pc' = "saved"
    /\ UNCHANGED <<probe_renders, call, chars, usable, bbox, font_files>>
    /\ UNCHANGED gridVars

RunsNext == CreateUnicodeTileset

SpecRuns == RunsInit /\ [][RunsNext]_vars

-----------------------------------------------------------------------------
(* Claim about repeated runs, under SpecRuns. *)

\* C11: a run of create_unicode_tileset after an earlier run with the same
\* character list, font files and configuration gives the same font per
\* character and the same atlas, the same missing-glyph list and the same
\* count of symbol-font characters, whatever the earlier run left in
\* _tofu_cache.
C11_RunsAgree ==
    [][(pc = "saved" /\ pc' = "saved") =>
          /\ image' = image
          /\ missing_chars' = missing_chars
          /\ symbol_font_used' = symbol_font_used]_vars

-----------------------------------------------------------------------------
(* Where the glyph lands in the tile, for the calls of SpecRender.  A box   *)
(* is <<left, top, right, bottom>>, right and bottom exclusive.             *)

\* draw.text(pen, char, font=font): the glyph covers the box that
\* textbbox((0, 0), char, font=font) answered with, moved by the pen.
DrawnBox(pen, box) ==
    <<pen[1] + box[1], pen[2] + box[2], pen[1] + box[3], pen[2] + box[4]>>

\* large_draw.text((-bbox[0], -bbox[1]), char, ..., font=font): the box of
\* the glyph on the oversized canvas; the font is the one that was measured.
GlyphOnLargeCanvas(g, box) == DrawnBox(g.pen, box)

CeilDiv(a, b) == (a + b - 1) \div b

\* large_img.resize(to): a box of the source of size `from` covers, in the
\* result, the pixels its scaled edges reach.
Resized(box, from, to) ==
    <<(box[1] * to[1]) \div from[1], (box[2] * to[2]) \div from[2],
      CeilDiv(box[3] * to[1], from[1]), CeilDiv(box[4] * to[2], from[2])>>

\* The box of the glyph in the tile that is returned: pasted at (x, y) after
\* the resize, or drawn at the pen (x, y).
GlyphInTile(g, box) ==
    IF g.path = "scaled"
    THEN LET r == Resized(GlyphOnLargeCanvas(g, box), g.large_size,
                          <<g.new_width, g.new_height>>)
         IN  <<g.x + r[1], g.y + r[2], g.x + r[3], g.y + r[4]>>
    ELSE DrawnBox(<<g.x, g.y>>, box)

-----------------------------------------------------------------------------
(* Claims about the placement, under SpecRender. *)

\* C12: on the scaling path the glyph is drawn at twice its natural size, so
\* that it fills the oversized canvas; after the downscale the glyph in the
\* tile has the scaled size, min((tile_width - 2) / char_width,
\* (tile_height - 4) / char_height) times its natural size; and its
\* footprint is centered: left and right margins differ by at most 1, and
\* so do top and bottom.
C12_ScaledGlyphFillsAndIsCentered ==
    (call.op = "render_char_to_tile" /\ call.geom.path = "scaled") =>
        LET g == call.geom
            t == GlyphInTile(g, bbox)
        IN  /\ GlyphOnLargeCanvas(g, bbox) = <<0, 0, g.large_size[1], g.large_size[2]>>
            /\ t[3] - t[1] = g.new_width
            /\ t[4] - t[2] = g.new_height
            /\ Abs(t[1] - (tile_width - t[3])) <= 1
            /\ Abs(t[2] - (tile_height - t[4])) <= 1

\* C13: a bounding box of width <= tile_width - 2 and height <=
\* tile_height - 4 takes the direct path with the pen at
\* x = (tile_width - char_width) div 2 - bbox.left,
\* y = (tile_height - char_height) div 2 - bbox.top, whatever the origin of
\* the box: left and right margins differ by at most 1 and are >= 1, top and
\* bottom margins differ by at most 1 and are >= 2.  A box of zero width or
\* height takes the direct path even if its other side exceeds the interior.
C13_DirectPathCentered ==
    call.op = "render_char_to_tile" =>
        LET g == call.geom
            t == GlyphInTile(g, bbox)
            left == t[1]
            right == tile_width - t[3]
            top == t[2]
            bottom == tile_height - t[4]
        IN  /\ (g.char_width <= tile_width - 2 /\ g.char_height <= tile_height - 4) =>
                  /\ g.path = "direct"
                  /\ g.x = (tile_width - g.char_width) \div 2 - bbox[1]
                  /\ g.y = (tile_height - g.char_height) \div 2 - bbox[2]
                  /\ Abs(left - right) <= 1 /\ left >= 1 /\ right >= 1
                  /\ Abs(top - bottom) <= 1 /\ top >= 2 /\ bottom >= 2
            /\ (g.char_width = 0 \/ g.char_height = 0) => g.path = "direct"

\* A 3 x 2 box with the origin (-1, -1) drawn directly into an 8 x 8 tile:
\* margins 2 and 3 left and right, 3 and 3 top and bottom.
C13_Witness ==
    /\ call.op = "render_char_to_tile"
    /\ call.geom.path = "direct"
    /\ tile_width = 8
    /\ tile_height = 8
    /\ bbox = <<0 - 1, 0 - 1, 2, 1>>
    /\ GlyphInTile(call.geom, bbox) = <<2, 3, 5, 5>>

-----------------------------------------------------------------------------
(* SpecReuse: get_tofu_pixels in a process that calls                       *)
(* create_unicode_tileset more than once.  When a call returns its handles  *)
(* are released; the next call loads the same files into new handles, and   *)
(* a new handle may get the identity any released handle had.  _tofu_cache  *)
(* is never cleared.                                                        *)

\* The ways the identities of the released handles go to the new ones.
Reassignments ==
    LET ids == {f.id : f \in LoadedFonts}
    IN  {a \in [ids -> ids] : \A j, k \in ids : j # k => a[j] # a[k]}

\* create_unicode_tileset returns and is called again: lines 330-331 load
\* the fonts anew.
ReleaseAndReload ==
    /\ \E a \in Reassignments :
          /\ main_font' = [main_font EXCEPT !.id = a[@]]
          /\ symbol_fonts' = [k \in 1 .. Len(symbol_fonts) |->
                                 [symbol_fonts[k] EXCEPT !.id = a[@]]]
    /\ call' = NoCall
    /\ UNCHANGED <<tofu_cache, probe_renders, bbox, font_files>>
    /\ UNCHANGED loopVars
    /\ UNCHANGED gridVars

ReuseNext == CallGetTofuPixels \/ ReleaseAndReload

SpecReuse == GlyphInit /\ [][ReuseNext]_vars

-----------------------------------------------------------------------------
(* Claim about the cache across reloads, under SpecReuse. *)

\* C14: whenever get_tofu_pixels(font) returns, the value is the footprint
\* the font renders for chr(0xFFFF) now, also when the handle has the
\* identity a released handle of another font had.
C14_TofuValueIsCurrentFootprint ==
    (call.op = "get_tofu_pixels" /\ ~call.raised) => call.value = call.font.probe

====
